---- MODULE Spec2Model ----
(***************************************************************************)
(* Booking / allocation core of the IELTS registration portal              *)
(* (src/App.tsx): the App component's in-memory state, the two booking      *)
(* dialogs (PaidTestManager for guests, AvailableTests for students), the   *)
(* staff operations that touch bookings, and the cloud sync with the        *)
(* Supabase store.                                                          *)
(*                                                                          *)
(* Representation:                                                          *)
(*   - an ISO date string 'YYYY-MM-DD' is the tuple <<y, m, d>>; the empty  *)
(*     string in a date field is the empty tuple <<>>;                      *)
(*   - an instant (a JS Date) is a number of minutes since 1970-01-01T00Z;  *)
(*   - arrays of rows keyed by a primary key that the code never lets       *)
(*     repeat (tests, students) are functions from the key; the booking     *)
(*     list is a sequence, in the order of the array.                       *)
(***************************************************************************)
EXTENDS Integers, Sequences, FiniteSets, TLC

\* ------------------------------------------------------------------------
\* Bounds of the model
\* ------------------------------------------------------------------------
MaxRegs == 2          \* bookings a client's list may hold
MaxTimes == 1         \* how many of the SPEAKING_TIMES labels the users pick from
MaxLoads == 1         \* initCloud calls of one client in flight at a time
MaxNow == 1           \* values Date.now() takes: 1..MaxNow

NULL == "null"         \* null in a string-valued field (loggedID, userRole)

\* a nullable object (TestSchedule | null, Registration | null) is a tuple of
\* at most one element
None == << >>
Some(x) == << x >>

\* ------------------------------------------------------------------------
\* Program constants
\* ------------------------------------------------------------------------
\* src/App.tsx:13-19
SPEAKING_TIMES ==
  << "10:40 AM", "11:00 AM", "11:20 AM", "11:40 AM",
     "12:00 PM", "12:20 PM", "12:40 PM",
     "02:10 PM", "02:30 PM", "02:50 PM", "03:10 PM", "03:30 PM", "03:50 PM",
     "04:10 PM", "04:30 PM", "04:50 PM", "05:10 PM", "05:30 PM", "05:50 PM",
     "06:10 PM", "06:30 PM" >>

\* src/App.tsx:21
SPEAKING_ROOMS == << "Room No: 01", "Room No: 02", "Room No: 03" >>

\* src/types.ts:10-16
TestType == {"Listening", "Reading", "Writing", "Speaking", "Mock"}

\* src/types.ts:18-23
RegistrationStatus == {"Pending", "Confirmed", "Cancelled", "Completed"}

\* src/types.ts:2-8
UserRole == {"STUDENT", "VIEWER", "MODERATOR", "CO_ADMIN", "ADMIN"}

\* t.test_type.toLowerCase() as keyof RemainingTests (src/App.tsx:686)
toLowerCase(s) ==
  CASE s = "Listening" -> "listening"
    [] s = "Reading"   -> "reading"
    [] s = "Writing"   -> "writing"
    [] s = "Speaking"  -> "speaking"
    [] s = "Mock"      -> "mock"
    [] OTHER           -> s

\* ------------------------------------------------------------------------
\* JavaScript Date, as far as the speaking-date computation uses it
\* ------------------------------------------------------------------------
MinutesPerDay == 24 * 60

\* days since 1970-01-01 of the proleptic Gregorian date y-m-d; d may lie
\* outside the month (MakeDay of ECMA-262 counts on from the first)
DaysFromCivil(y, m, d) ==
  LET yy  == IF m <= 2 THEN y - 1 ELSE y
      era == yy \div 400
      yoe == yy - era * 400
      mp  == (m + 9) % 12
      doy == (153 * mp + 2) \div 5 + d - 1
      doe == yoe * 365 + yoe \div 4 - yoe \div 100 + doy
  IN  era * 146097 + doe - 719468

\* the date <<y, m, d>> of a day number, step by step: zz the day counted
\* from 0000-03-01, era the 400-year cycle, doe the day of the cycle, yoe
\* the year of the cycle, doy the day of the year counted from 1 March, mp
\* the month counted from March
CivilOfMonth(era, yoe, doy, mp, m) ==
  << yoe + era * 400 + (IF m <= 2 THEN 1 ELSE 0), m,
     doy - (153 * mp + 2) \div 5 + 1 >>

CivilOfDoy(era, yoe, doy, mp) ==
  CivilOfMonth(era, yoe, doy, mp, IF mp < 10 THEN mp + 3 ELSE mp - 9)

CivilOfYoe(era, doe, yoe) ==
  CivilOfDoy(era, yoe, doe - (365 * yoe + yoe \div 4 - yoe \div 100),
             (5 * (doe - (365 * yoe + yoe \div 4 - yoe \div 100)) + 2) \div 153)

CivilOfDoe(era, doe) ==
  CivilOfYoe(era, doe,
             (doe - doe \div 1460 + doe \div 36524 - doe \div 146096) \div 365)

CivilFromDays(z) ==
  CivilOfDoe((z + 719468) \div 146097, (z + 719468) % 146097)

\* new Date('YYYY-MM-DD'): a date-only ISO string is midnight UTC
NewDate(dateStr) == DaysFromCivil(dateStr[1], dateStr[2], dateStr[3]) * MinutesPerDay

\* date.toISOString().split('T')[0]: the UTC calendar date of the instant
toISODate(t) == CivilFromDays(t \div MinutesPerDay)

\* A time zone of the browser: offset std, except offset dst for instants in
\* [from, to).  A zone without daylight saving has from = to.
Offset(tz, t) == IF tz.from <= t /\ t < tz.to THEN tz.dst ELSE tz.std

\* LocalTime(t) of ECMA-262
LocalTime(tz, t) == t + Offset(tz, t)

\* UTC(t_local) of ECMA-262: a local time that is skipped or repeated at a
\* transition is interpreted with the offset before the transition
UTCOfLocal(tz, l) ==
  LET uStd == l - tz.std
      uDst == l - tz.dst
      okStd == Offset(tz, uStd) = tz.std
      okDst == Offset(tz, uDst) = tz.dst
  IN  IF okStd /\ okDst THEN (IF uStd < uDst THEN uStd ELSE uDst)
      ELSE IF okDst THEN uDst
      ELSE uStd

\* date.getDate(): day of the month in local time
getDate(tz, t) == CivilFromDays(LocalTime(tz, t) \div MinutesPerDay)[3]

\* date.setDate(n): local year, month and time of day kept, day set to n
SetDay(tz, l, ymd, n) ==
  UTCOfLocal(tz, DaysFromCivil(ymd[1], ymd[2], n) * MinutesPerDay
                 + (l % MinutesPerDay))

setDate(tz, t, n) ==
  SetDay(tz, LocalTime(tz, t), CivilFromDays(LocalTime(tz, t) \div MinutesPerDay), n)

\* [prev, next] of src/App.tsx:1192 and 1250: prev and next are new
\* Date(baseDate) with setDate(baseDate.getDate() - 1) and (... + 1), each
\* given as toISOString().split('T')[0]
MockSpeakingDates(tz, baseDate, day) ==
  << toISODate(setDate(tz, baseDate, day - 1)),
     toISODate(setDate(tz, baseDate, day + 1)) >>

\* src/App.tsx:1192 and 1250 (the same expression in both dialogs): the
\* candidate speaking dates of the session the dialog is open on
testSpeakingDates(tz, selectedTest) ==
  IF selectedTest = None THEN << >>
  ELSE IF selectedTest[1].test_type = "Mock"
       THEN MockSpeakingDates(tz, NewDate(selectedTest[1].test_date),
                              getDate(tz, NewDate(selectedTest[1].test_date)))
       ELSE << selectedTest[1].test_date >>

\* ------------------------------------------------------------------------
\* The data of the model
\* ------------------------------------------------------------------------
\* the browsers (App instances) that share the store
Clients == {"A", "B"}

\* the test sessions that exist (test_id); the model creates none
TestIds == {"t1", "t2"}

\* time zones a browser may run in
Dhaka    == [std |-> 360, dst |-> 360, from |-> 0, to |-> 0]
UTCZone  == [std |-> 0, dst |-> 0, from |-> 0, to |-> 0]
\* Europe/Berlin in 2024: CEST from 2024-03-31T01:00Z to 2024-10-27T01:00Z
Berlin   == [std |-> 60, dst |-> 120,
             from |-> NewDate(<<2024, 3, 31>>) + 60,
             to   |-> NewDate(<<2024, 10, 27>>) + 60]
\* America/New_York in 2024: EDT from 2024-03-10T07:00Z to 2024-11-03T06:00Z
NewYork  == [std |-> -300, dst |-> -240,
             from |-> NewDate(<<2024, 3, 10>>) + 420,
             to   |-> NewDate(<<2024, 11, 3>>) + 360]
Zones == {Dhaka, UTCZone, Berlin, NewYork}

\* RemainingTests of a new profile (src/types.ts:31-37)
InitBalance ==
  [listening |-> 2, reading |-> 0, writing |-> 0, speaking |-> 2, mock |-> 1]

\* the student profile that exists at the start
InitStudents ==
  [u \in {"S1"} |->
     [user_id |-> u, username |-> u, password |-> "pw1",
      remaining_tests |-> InitBalance]]

\* the seeded administrator (src/README.md:99-100)
INITIAL_ADMINS ==
  [a \in {"1"} |->
     [admin_id |-> a, username |-> "HA.admin01", password |-> "HA@2007.app",
      role |-> "ADMIN"]]

\* the sessions at the start: a Speaking session on 2024-06-14 with one
\* seat, and a Mock session on 2024-06-15, whose speaking dates are
\* 2024-06-14 and 2024-06-16, with two seats
InitTests ==
  [t \in TestIds |->
     [test_id |-> t,
      test_type |-> IF t = "t1" THEN "Speaking" ELSE "Mock",
      test_date |-> IF t = "t1" THEN <<2024, 6, 14>> ELSE <<2024, 6, 15>>,
      test_time |-> "09:30 AM",
      room_number |-> "Room 4",
      max_capacity |-> IF t = "t1" THEN 1 ELSE 2,
      current_registrations |-> 0,
      is_closed |-> FALSE,
      is_deleted |-> FALSE]]

\* getInitialState (src/App.tsx:168-179), with localStorage holding the
\* start data
InitAppData ==
  [students |-> InitStudents, admins |-> INITIAL_ADMINS, tests |-> InitTests,
   registrations |-> << >>, results |-> << >>, isSystemLocked |-> FALSE]

\* what the users type and pick
AdminLogins == { <<"HA.admin01", "HA@2007.app">> }
StudentLogins == { <<"S1", "pw1">>, <<"S1", "oops">> }
LoginInputs == AdminLogins \cup StudentLogins
PassInputs == {"pw1", "oops"}
GuestForms == { [name |-> "Guest", phone |-> "017"] }
NewStudentIds == {"GUEST-1"}
SlotTimes == { SPEAKING_TIMES[i] : i \in 1..MaxTimes }
Routes == {"/", "/students", "/schedules", "/paid-test", "/tests"}
\* the NavLinks of the sidebar the users click (src/App.tsx:531-578)
NavLinks(role) ==
  IF role = "STUDENT" THEN {"/tests"}
  ELSE {"/students", "/schedules", "/paid-test"}
\* new Date().toISOString().split('T')[0] at the time of the run
Today == <<2024, 6, 1>>

VARIABLES
  appData,     \* [Clients -> AppState]: App's appData (src/App.tsx:454)
  loggedID,    \* [Clients -> id or NULL] (src/App.tsx:452)
  userRole,    \* [Clients -> role or NULL] (src/App.tsx:453)
  route,       \* [Clients -> Routes]: window.location.hash
  paid,        \* [Clients -> state of PaidTestManager] (src/App.tsx:1184-1190)
  avail,       \* [Clients -> state of AvailableTests] (src/App.tsx:1240-1246)
  sched,       \* [Clients -> state of ScheduleManager] (src/App.tsx:1111-1116)
  alertMsg,    \* [Clients -> the text of the alert() the last step raised]
  store,       \* the Supabase tables
  loading,     \* [Clients -> number of initCloud calls in flight]
  saveTimer,   \* [Clients -> whether the 2 s sync timer is armed]
  nextReg,     \* number of reg_id values drawn so far
  tz,          \* [Clients -> time zone of the browser]
  probe        \* a session and the speaking dates computed for it

vars == << appData, loggedID, userRole, route, paid, avail, sched, alertMsg,
           store, loading, saveTimer, nextReg, tz, probe >>

\* ------------------------------------------------------------------------
\* Helpers
\* ------------------------------------------------------------------------
Min(a, b) == IF a < b THEN a ELSE b

Range(seq) == { seq[i] : i \in DOMAIN seq }

\* truthiness of a string (speakingTime, assignedRoom, speaking_time, ...)
Truthy(x) == x # ""

\* truthiness of a date string, dates being held as << y, m, d >> and the
\* empty string as << >>
TruthyDate(x) == x # << >>

\* `GUEST-${Date.now()}` (src/App.tsx:656)
GuestId(now) == "GUEST-" \o ToString(now)

\* the state of the components when they mount
PaidInit ==
  [selectedTest |-> None, guestForm |-> [name |-> "", phone |-> ""],
   confirmedBooking |-> None,
   speakingDate |-> << >>, speakingTime |-> "", assignedRoom |-> ""]

AvailInit ==
  [confirmTest |-> None, passInput |-> "", error |-> "",
   speakingDate |-> << >>, speakingTime |-> "", assignedRoom |-> ""]

SchedInit == [editingTest |-> None]

\* src/App.tsx:495-498
currentStudent(data, id, role) ==
  IF role = "STUDENT" /\ id # NULL /\ id \in DOMAIN data.students
  THEN Some(data.students[id]) ELSE None

\* src/App.tsx:500-503
currentAdmin(data, id, role) ==
  IF role # "STUDENT" /\ id # NULL /\ id \in DOMAIN data.admins
  THEN Some(data.admins[id]) ELSE None

\* src/App.tsx:505: the portal is rendered, not the login page
Portal(data, id, role) ==
  ~ ( id = NULL
      \/ (role = "STUDENT" /\ currentStudent(data, id, role) = None)
      \/ (role # "STUDENT" /\ role # NULL /\ currentAdmin(data, id, role) = None) )

LoggedIn(c) == Portal(appData[c], loggedID[c], userRole[c])

\* src/App.tsx:513
isReadOnly(c) == userRole[c] = "VIEWER"

\* src/App.tsx:1193 and 1252: the (date, room, time) of the bookings of the
\* session the dialog is open on, each `${date}|${room}|${time}` a triple
occupiedSlots(data, selectedTest) ==
  IF selectedTest = None THEN {}
  ELSE { << r.speaking_date, r.speaking_room, r.speaking_time >> :
           r \in { x \in Range(data.registrations) :
                     /\ x.test_id = selectedTest[1].test_id
                     /\ TruthyDate(x.speaking_date)
                     /\ Truthy(x.speaking_time)
                     /\ Truthy(x.speaking_room) } }

\* src/App.tsx:1221 and 1267:
\* SPEAKING_ROOMS.find(r => !occupiedSlots.includes(`${speakingDate}|${r}|${t}`))
FindRoom(occupied, speakingDate, t) ==
  LET free == { i \in DOMAIN SPEAKING_ROOMS :
                  << speakingDate, SPEAKING_ROOMS[i], t >> \notin occupied }
  IN  IF free = {} THEN None
      ELSE Some(SPEAKING_ROOMS[CHOOSE i \in free : \A j \in free : i <= j])

\* the session types with a speaking slot (src/App.tsx:1214, 1263)
NeedsSpeaking(t) == t.test_type = "Mock" \/ t.test_type = "Speaking"

\* src/App.tsx:1251: the effect that preselects the only candidate date
AvailEffect(zone, a) ==
  LET dates == testSpeakingDates(zone, a.confirmTest)
  IN  IF Len(dates) = 1 /\ ~ TruthyDate(a.speakingDate)
      THEN [a EXCEPT !.speakingDate = dates[1]] ELSE a

\* All the state of one client after a handler ran and React rendered: the
\* components that are no longer rendered lose their state, the effects of
\* the rendered ones run, and a new appData object arms the sync timer
\* (src/App.tsx:485-493, 505-511, 609-719).
Commit(c, touched, ended, nd, nid, nrole, nroute, np, na, ns) ==
  LET portal == Portal(nd, nid, nrole)
  IN  /\ appData' = [appData EXCEPT ![c] = nd]
      /\ loggedID' = [loggedID EXCEPT ![c] = nid]
      /\ userRole' = [userRole EXCEPT ![c] = nrole]
      /\ route' = [route EXCEPT ![c] = nroute]
      /\ paid' = [paid EXCEPT ![c] =
                    IF portal /\ nroute = "/paid-test" THEN np ELSE PaidInit]
      /\ avail' = [avail EXCEPT ![c] =
                     IF portal /\ nroute = "/tests"
                        /\ currentStudent(nd, nid, nrole) # None
                     THEN AvailEffect(tz[c], na) ELSE AvailInit]
      /\ sched' = [sched EXCEPT ![c] =
                     IF portal /\ nroute = "/schedules" THEN ns ELSE SchedInit]
      /\ saveTimer' = [saveTimer EXCEPT ![c] = @ \/ touched]
      \* initCloud starts when userRole changes (src/App.tsx:483)
      /\ loading' = [loading EXCEPT ![c] =
                       IF nrole # userRole[c]
                       THEN Min(@ - ended + 1, MaxLoads) ELSE @ - ended]

\* a handler that leaves login state and route alone
Local(c, touched, nd, np, na, ns) ==
  Commit(c, touched, 0, nd, loggedID[c], userRole[c], route[c], np, na, ns)

\* ------------------------------------------------------------------------
\* The handlers of App that change appData
\* ------------------------------------------------------------------------
\* the counter of every session were raised
BumpEveryCounter(tests, testId) ==
  [x \in DOMAIN tests |-> [tests[x] EXCEPT !.current_registrations = @ + 1]]

\* prev.tests.map(x => x.test_id === t.test_id ? {...x, current_registrations:
\* x.current_registrations + 1} : x)  (src/App.tsx:670 and 701)
BumpCounter(tests, testId) ==
  [x \in DOMAIN tests |->
     IF tests[x].test_id = testId
     THEN [tests[x] EXCEPT !.current_registrations = @ + 1]
     ELSE tests[x]]

\* the Registration built by the /paid-test onRegister (src/App.tsx:654-666);
\* speakingSlot is None for undefined
PaidNewReg(t, guestInfo, speakingSlot, regId, now) ==
  [reg_id |-> regId,
   user_id |-> GuestId(now),
   test_id |-> t.test_id,
   module_type |-> t.test_type,
   registration_date |-> Today,
   status |-> "Confirmed",
   speaking_date |-> IF speakingSlot = None THEN << >> ELSE speakingSlot[1].date,
   speaking_time |-> IF speakingSlot = None THEN "" ELSE speakingSlot[1].time,
   speaking_room |-> IF speakingSlot = None THEN "" ELSE speakingSlot[1].room,
   guest_name |-> guestInfo.name,
   guest_phone |-> guestInfo.phone]

\* the setAppData of the /paid-test onRegister (src/App.tsx:667-671)
PaidRegister(prev, t, newReg) ==
  [prev EXCEPT !.registrations = Append(@, newReg),
               !.tests = BumpCounter(@, t.test_id)]

\* the Registration built by the /tests onRegister (src/App.tsx:687-697)
StudentNewReg(t, student, speakingSlot, regId) ==
  [reg_id |-> regId,
   user_id |-> student.user_id,
   test_id |-> t.test_id,
   module_type |-> t.test_type,
   registration_date |-> Today,
   status |-> "Confirmed",
   speaking_date |-> IF speakingSlot = None THEN << >> ELSE speakingSlot[1].date,
   speaking_time |-> IF speakingSlot = None THEN "" ELSE speakingSlot[1].time,
   speaking_room |-> IF speakingSlot = None THEN "" ELSE speakingSlot[1].room,
   guest_name |-> "",
   guest_phone |-> ""]

\* the balance were taken from every profile
DecBalanceOfAll(students, userId, key) ==
  [u \in DOMAIN students |->
     [students[u] EXCEPT !.remaining_tests[key] = @ - 1]]

\* prev.students.map(...) of the /tests onRegister (src/App.tsx:702)
DecBalance(students, userId, key) ==
  [u \in DOMAIN students |->
     IF students[u].user_id = userId
     THEN [students[u] EXCEPT !.remaining_tests[key] = @ - 1]
     ELSE students[u]]

\* the setAppData of the /tests onRegister (src/App.tsx:686, 698-703)
StudentRegister(prev, t, newReg, student) ==
  [prev EXCEPT !.registrations = Append(@, newReg),
               !.tests = BumpCounter(@, t.test_id),
               !.students = DecBalance(@, student.user_id, toLowerCase(t.test_type))]

\* the setAppData of the /students onDelete (src/App.tsx:629-634)
RemoveStudent(p, id) ==
  [p EXCEPT !.students = [u \in DOMAIN @ \ {id} |-> @[u]],
            !.registrations = SelectSeq(@, LAMBDA r : r.user_id # id),
            !.results = SelectSeq(@, LAMBDA r : r.user_id # id)]

\* the bookings of the session were removed with it
SoftDeleteWithBookings(p, id) ==
  [p EXCEPT !.tests = [x \in DOMAIN @ |->
                         IF @[x].test_id = id
                         THEN [@[x] EXCEPT !.is_deleted = TRUE] ELSE @[x]],
            !.registrations = SelectSeq(@, LAMBDA r : r.test_id # id)]

\* the setAppData of the /schedules onDelete (src/App.tsx:645-648)
SoftDelete(p, id) ==
  [p EXCEPT !.tests = [x \in DOMAIN @ |->
                         IF @[x].test_id = id
                         THEN [@[x] EXCEPT !.is_deleted = TRUE] ELSE @[x]]]

\* the bookings of a session were cancelled when the session is closed
UpdateTestCancelsBookings(p, t) ==
  [p EXCEPT !.tests = [x \in DOMAIN @ |->
                         IF @[x].test_id = t.test_id THEN t ELSE @[x]],
            !.registrations =
               [i \in DOMAIN @ |->
                  IF @[i].test_id = t.test_id /\ t.is_closed
                  THEN [@[i] EXCEPT !.status = "Cancelled"] ELSE @[i]]]

\* the setAppData of the /schedules onUpdate (src/App.tsx:643)
UpdateTest(p, t) ==
  [p EXCEPT !.tests = [x \in DOMAIN @ |->
                         IF @[x].test_id = t.test_id THEN t ELSE @[x]]]

\* the student built by the /students onAdd (src/App.tsx:616-623)
NewStudent(id) ==
  [user_id |-> id, username |-> id, password |-> "pw2",
   remaining_tests |-> InitBalance]

\* ------------------------------------------------------------------------
\* Login, logout, navigation
\* ------------------------------------------------------------------------
\* no alert() is raised, and nothing outside the client is touched
Quiet ==
  /\ alertMsg' = [c \in Clients |-> ""]
  /\ UNCHANGED << store, nextReg, tz, probe >>

\* no alert() is raised
NoAlert == alertMsg' = [c \in Clients |-> ""]

\* alert(text) in client c
Alert(c, text) == alertMsg' = [d \in Clients |-> IF d = c THEN text ELSE ""]

\* an overlay (booking dialog or receipt) covers the page
Overlay(c) ==
  \/ paid[c].selectedTest # None
  \/ paid[c].confirmedBooking # None
  \/ avail[c].confirmTest # None

\* LoginPage.handleLogin (src/App.tsx:329-344) with onLogin (506-510)
Login(c, username, password) ==
  /\ ~ LoggedIn(c)
  /\ LET data == appData[c]
         admins == { a \in DOMAIN data.admins :
                       /\ data.admins[a].username = username
                       /\ data.admins[a].password = password }
         students == { u \in DOMAIN data.students :
                         /\ \/ data.students[u].user_id = username
                            \/ data.students[u].username = username
                         /\ data.students[u].password = password }
     IN  IF admins # {}
         THEN LET a == CHOOSE a \in admins : TRUE
              IN  Commit(c, FALSE, 0, data, a, data.admins[a].role, "/",
                         PaidInit, AvailInit, SchedInit)
         ELSE IF students # {} /\ ~ data.isSystemLocked
         THEN LET u == CHOOSE u \in students : TRUE
              IN  Commit(c, FALSE, 0, data, u, "STUDENT", "/",
                         PaidInit, AvailInit, SchedInit)
         ELSE Local(c, FALSE, data, paid[c], avail[c], sched[c])
  /\ Quiet

\* Sign Out (src/App.tsx:593); the button lies under any open overlay.  The
\* hash is left as it is, and the next onLogin sets it to '#/' before the
\* portal renders again (src/App.tsx:509), so it is held as "/" from here on.
Logout(c) ==
  /\ LoggedIn(c)
  /\ ~ Overlay(c)
  /\ Commit(c, FALSE, 0, appData[c], NULL, NULL, "/",
            PaidInit, AvailInit, SchedInit)
  /\ Quiet

\* a NavLink (src/App.tsx:531-578, 609-719): the component of the old
\* route unmounts, the one of the new route mounts
Navigate(c, r) ==
  /\ LoggedIn(c)
  /\ ~ Overlay(c)
  /\ r \in NavLinks(userRole[c])
  /\ r # route[c]
  /\ Commit(c, FALSE, 0, appData[c], loggedID[c], userRole[c], r,
            PaidInit, AvailInit, SchedInit)
  /\ Quiet

\* the user edits the hash of the address bar: HashRouter renders the
\* route of the new hash, whatever the role (src/App.tsx:609-719)
OpenHash(c, r) ==
  /\ LoggedIn(c)
  /\ r \in Routes
  /\ r # route[c]
  /\ Commit(c, FALSE, 0, appData[c], loggedID[c], userRole[c], r,
            PaidInit, AvailInit, SchedInit)
  /\ Quiet

\* Lock Student Login / Maintenance Mode ON of AdminDashboard, confirmed
\* (src/App.tsx:819-841), with onToggleLock (610); the dashboard of a
\* student is StudentDashboard, which has no such button
ToggleLock(c) ==
  /\ LoggedIn(c)
  /\ route[c] = "/"
  /\ userRole[c] # "STUDENT"
  /\ Local(c, TRUE, [appData[c] EXCEPT !.isSystemLocked = ~ @],
           paid[c], avail[c], sched[c])
  /\ Quiet

\* ------------------------------------------------------------------------
\* PaidTestManager (src/App.tsx:1183-1237)
\* ------------------------------------------------------------------------
PaidMounted(c) == LoggedIn(c) /\ route[c] = "/paid-test"

\* the sessions of the page were the seats not counted
PaidFilteredAnySeats(data) ==
  { x \in DOMAIN data.tests :
      ~ data.tests[x].is_deleted /\ ~ data.tests[x].is_closed }

\* src/App.tsx:1191, with an empty search box
PaidFiltered(data) ==
  { x \in DOMAIN data.tests :
      /\ ~ data.tests[x].is_deleted
      /\ ~ data.tests[x].is_closed
      /\ data.tests[x].current_registrations < data.tests[x].max_capacity }

\* Book Test (src/App.tsx:1199)
PaidBookTest(c, x) ==
  /\ PaidMounted(c)
  /\ ~ Overlay(c)
  /\ x \in PaidFiltered(appData[c])
  /\ Local(c, FALSE, appData[c],
           [paid[c] EXCEPT !.selectedTest = Some(appData[c].tests[x])],
           avail[c], sched[c])
  /\ Quiet

\* the two inputs of the dialog (src/App.tsx:1212-1213)
PaidFill(c, form) ==
  /\ PaidMounted(c)
  /\ paid[c].selectedTest # None
  /\ form # paid[c].guestForm
  /\ Local(c, FALSE, appData[c], [paid[c] EXCEPT !.guestForm = form],
           avail[c], sched[c])
  /\ Quiet

\* the date <select> (src/App.tsx:1217)
PaidSelectDate(c, d) ==
  /\ PaidMounted(c)
  /\ paid[c].selectedTest # None
  /\ NeedsSpeaking(paid[c].selectedTest[1])
  /\ d \in Range(testSpeakingDates(tz[c], paid[c].selectedTest)) \cup { << >> }
  /\ d # paid[c].speakingDate
  /\ Local(c, FALSE, appData[c],
           [paid[c] EXCEPT !.speakingDate = d, !.speakingTime = "",
                           !.assignedRoom = ""],
           avail[c], sched[c])
  /\ Quiet

\* a time button (src/App.tsx:1220-1223), disabled when no room is free
PaidSelectTime(c, t) ==
  /\ PaidMounted(c)
  /\ paid[c].selectedTest # None
  /\ NeedsSpeaking(paid[c].selectedTest[1])
  /\ TruthyDate(paid[c].speakingDate)
  /\ LET room == FindRoom(occupiedSlots(appData[c], paid[c].selectedTest),
                          paid[c].speakingDate, t)
     IN  /\ room # None
         /\ Local(c, FALSE, appData[c],
                  [paid[c] EXCEPT !.speakingTime = t, !.assignedRoom = room[1]],
                  avail[c], sched[c])
  /\ Quiet

\* Cancel (src/App.tsx:1229)
PaidCancel(c) ==
  /\ PaidMounted(c)
  /\ paid[c].selectedTest # None
  /\ Local(c, FALSE, appData[c], [paid[c] EXCEPT !.selectedTest = None],
           avail[c], sched[c])
  /\ Quiet

\* Confirm were the form not looked at
PaidConfirmPassesAnyForm(p) == TRUE

\* the guard of Confirm (src/App.tsx:1229): if(!guestForm.name ||
\* !guestForm.phone) return alert("Fill all fields.")
PaidConfirmPasses(p) == p.guestForm.name # "" /\ p.guestForm.phone # ""

\* the speakingSlot argument Confirm passes to onRegister (src/App.tsx:1229)
PaidSlot(p) ==
  IF NeedsSpeaking(p.selectedTest[1])
  THEN Some([date |-> p.speakingDate, room |-> p.assignedRoom,
             time |-> p.speakingTime])
  ELSE None

\* Confirm (src/App.tsx:1229) with the /paid-test onRegister (653-673)
PaidConfirm(c, now) ==
  /\ PaidMounted(c)
  /\ paid[c].selectedTest # None
  /\ IF ~ PaidConfirmPasses(paid[c])
     THEN /\ Alert(c, "Fill all fields.")
          /\ Local(c, FALSE, appData[c], paid[c], avail[c], sched[c])
          /\ UNCHANGED nextReg
     ELSE /\ nextReg < MaxRegs
          /\ LET t == paid[c].selectedTest[1]
                 reg == PaidNewReg(t, paid[c].guestForm, PaidSlot(paid[c]),
                                   nextReg + 1, now)
             IN  Local(c, TRUE, PaidRegister(appData[c], t, reg),
                       [PaidInit EXCEPT !.confirmedBooking = Some(reg)],
                       avail[c], sched[c])
          /\ nextReg' = nextReg + 1
          /\ NoAlert
  /\ UNCHANGED << store, tz, probe >>

\* Close Receipt (src/App.tsx:1203)
PaidCloseReceipt(c) ==
  /\ PaidMounted(c)
  /\ paid[c].confirmedBooking # None
  /\ Local(c, FALSE, appData[c], [paid[c] EXCEPT !.confirmedBooking = None],
           avail[c], sched[c])
  /\ Quiet

\* ------------------------------------------------------------------------
\* AvailableTests (src/App.tsx:1239-1283)
\* ------------------------------------------------------------------------
AvailMounted(c) ==
  /\ LoggedIn(c)
  /\ route[c] = "/tests"
  /\ currentStudent(appData[c], loggedID[c], userRole[c]) # None

Student(c) == currentStudent(appData[c], loggedID[c], userRole[c])[1]

\* the Book Session button were not disabled by an empty balance
NoBalanceNever(student, t) == FALSE

\* src/App.tsx:1277: registered, noBalance, isFull of a session card
Registered(data, student, t) ==
  \E r \in Range(data.registrations) :
     r.user_id = student.user_id /\ r.test_id = t.test_id
NoBalance(student, t) == student.remaining_tests[toLowerCase(t.test_type)] <= 0
IsFull(t) == t.current_registrations >= t.max_capacity

\* the cards with an enabled Book Session button (src/App.tsx:1249,
\* 1277-1278); no account of the model has expired
AvailBookable(data, student) ==
  { x \in DOMAIN data.tests :
      /\ ~ data.tests[x].is_deleted
      /\ ~ Registered(data, student, data.tests[x])
      /\ ~ ( NoBalance(student, data.tests[x]) \/ data.tests[x].is_closed
             \/ IsFull(data.tests[x]) ) }

\* Book Session (src/App.tsx:1278)
AvailBook(c, x) ==
  /\ AvailMounted(c)
  /\ ~ Overlay(c)
  /\ x \in AvailBookable(appData[c], Student(c))
  /\ Local(c, FALSE, appData[c], paid[c],
           [avail[c] EXCEPT !.confirmTest = Some(appData[c].tests[x])],
           sched[c])
  /\ Quiet

\* a Speaking Date button, shown for Mock sessions (src/App.tsx:1266)
AvailSelectDate(c, d) ==
  /\ AvailMounted(c)
  /\ avail[c].confirmTest # None
  /\ avail[c].confirmTest[1].test_type = "Mock"
  /\ d \in Range(testSpeakingDates(tz[c], avail[c].confirmTest))
  /\ Local(c, FALSE, appData[c], paid[c],
           [avail[c] EXCEPT !.speakingDate = d, !.speakingTime = "",
                            !.assignedRoom = ""],
           sched[c])
  /\ Quiet

\* a time button (src/App.tsx:1267), disabled when no room is free
AvailSelectTime(c, t) ==
  /\ AvailMounted(c)
  /\ avail[c].confirmTest # None
  /\ NeedsSpeaking(avail[c].confirmTest[1])
  /\ TruthyDate(avail[c].speakingDate)
  /\ LET room == FindRoom(occupiedSlots(appData[c], avail[c].confirmTest),
                          avail[c].speakingDate, t)
     IN  /\ room # None
         /\ Local(c, FALSE, appData[c], paid[c],
                  [avail[c] EXCEPT !.speakingTime = t, !.assignedRoom = room[1]],
                  sched[c])
  /\ Quiet

\* the Portal Password input (src/App.tsx:1271)
AvailType(c, pass) ==
  /\ AvailMounted(c)
  /\ avail[c].confirmTest # None
  /\ pass # avail[c].passInput
  /\ Local(c, FALSE, appData[c], paid[c],
           [avail[c] EXCEPT !.passInput = pass], sched[c])
  /\ Quiet

\* Cancel (src/App.tsx:1271)
AvailCancel(c) ==
  /\ AvailMounted(c)
  /\ avail[c].confirmTest # None
  /\ Local(c, FALSE, appData[c], paid[c], AvailInit, sched[c])
  /\ Quiet

\* every refusal of Confirm were reported with the same text
AvailConfirmErrorUniform(a, student) ==
  IF /\ a.passInput = student.password
     /\ a.confirmTest[1].current_registrations < a.confirmTest[1].max_capacity
     /\ ~ ( NeedsSpeaking(a.confirmTest[1])
            /\ (~ TruthyDate(a.speakingDate) \/ ~ Truthy(a.speakingTime)) )
  THEN ""
  ELSE "Failed."

\* the outcome of the checks of Confirm (src/App.tsx:1271): "" when the
\* booking goes ahead, else the text given to setError
AvailConfirmError(a, student) ==
  IF a.passInput = student.password
  THEN IF a.confirmTest[1].current_registrations >= a.confirmTest[1].max_capacity
       THEN "Full."
       ELSE IF NeedsSpeaking(a.confirmTest[1])
               /\ (~ TruthyDate(a.speakingDate) \/ ~ Truthy(a.speakingTime))
            THEN "Select speaking."
            ELSE ""
  ELSE "Incorrect."

\* the speakingSlot argument Confirm passes to onRegister (src/App.tsx:1271)
AvailSlot(a) ==
  Some([date |-> a.speakingDate, room |-> a.assignedRoom, time |-> a.speakingTime])

\* Confirm (src/App.tsx:1271) with the /tests onRegister (684-705)
AvailConfirm(c) ==
  /\ AvailMounted(c)
  /\ avail[c].confirmTest # None
  /\ LET err == AvailConfirmError(avail[c], Student(c))
     IN  IF err # ""
         THEN /\ Local(c, FALSE, appData[c], paid[c],
                       [avail[c] EXCEPT !.error = err], sched[c])
              /\ UNCHANGED nextReg
              /\ NoAlert
         ELSE /\ nextReg < MaxRegs
              /\ LET t == avail[c].confirmTest[1]
                     reg == StudentNewReg(t, Student(c), AvailSlot(avail[c]),
                                          nextReg + 1)
                 IN  Local(c, TRUE, StudentRegister(appData[c], t, reg, Student(c)),
                           paid[c], AvailInit, sched[c])
              /\ nextReg' = nextReg + 1
              /\ Alert(c, "Test successfully booked!")
  /\ UNCHANGED << store, tz, probe >>

\* ------------------------------------------------------------------------
\* ScheduleManager (src/App.tsx:1110-1181) and StudentManager (945-1108)
\* ------------------------------------------------------------------------
SchedMounted(c) == LoggedIn(c) /\ route[c] = "/schedules"

\* the isReadOnly prop of ScheduleManager (src/App.tsx:651)
SchedReadOnly(c) == isReadOnly(c) \/ userRole[c] = "MODERATOR"

\* src/App.tsx:1117, with an empty search box
SchedFiltered(data) == { x \in DOMAIN data.tests : ~ data.tests[x].is_deleted }

\* Edit (src/App.tsx:1174): setEditingTest(t); setForm({...t})
SchedEdit(c, x) ==
  /\ SchedMounted(c)
  /\ ~ SchedReadOnly(c)
  /\ x \in SchedFiltered(appData[c])
  /\ sched[c].editingTest # Some(appData[c].tests[x])
  /\ Local(c, FALSE, appData[c], paid[c], avail[c],
           [sched[c] EXCEPT !.editingTest = Some(appData[c].tests[x])])
  /\ Quiet

\* what the administrator changes in the form before Deploy Session: the
\* Manual Lock of a session that is open
EditForms(t) == IF t.is_closed THEN {} ELSE { [t EXCEPT !.is_closed = TRUE] }

\* Deploy Session (src/App.tsx:1144): onUpdate({...editingTest, ...form})
SchedSubmit(c, form) ==
  /\ SchedMounted(c)
  /\ ~ SchedReadOnly(c)
  /\ sched[c].editingTest # None
  /\ form \in EditForms(sched[c].editingTest[1])
  /\ Local(c, TRUE, UpdateTest(appData[c], form), paid[c], avail[c], SchedInit)
  /\ Quiet

\* Cancel of the form (src/App.tsx:1152)
SchedCancel(c) ==
  /\ SchedMounted(c)
  /\ sched[c].editingTest # None
  /\ Local(c, FALSE, appData[c], paid[c], avail[c], SchedInit)
  /\ Quiet

\* SupabaseAPI.deleteTest (src/App.tsx:151-153)
StoreDeleteTest(st, id) ==
  [st EXCEPT !.tests = [x \in DOMAIN @ |->
                          IF @[x].test_id = id
                          THEN [@[x] EXCEPT !.is_deleted = TRUE] ELSE @[x]]]

\* SupabaseAPI.deleteStudent (src/App.tsx:155-157)
StoreDeleteStudent(st, id) ==
  [st EXCEPT !.students = [u \in DOMAIN @ \ {id} |-> @[u]]]

\* Delete Session, confirmed (src/App.tsx:1141, 1174) with the /schedules
\* onDelete (644-650)
SchedDelete(c, x) ==
  /\ SchedMounted(c)
  /\ ~ SchedReadOnly(c)
  /\ x \in SchedFiltered(appData[c])
  /\ Local(c, TRUE, SoftDelete(appData[c], x), paid[c], avail[c], sched[c])
  /\ store' = StoreDeleteTest(store, x)
  /\ NoAlert
  /\ UNCHANGED << nextReg, tz, probe >>

StudentsMounted(c) == LoggedIn(c) /\ route[c] = "/students"

\* Create Profile (src/App.tsx:981) with the /students onAdd (613-626)
AddStudent(c, id) ==
  /\ StudentsMounted(c)
  /\ ~ isReadOnly(c)
  /\ IF id \in DOMAIN appData[c].students
     THEN /\ Alert(c, "User ID already exists.")
          /\ Local(c, FALSE, appData[c], paid[c], avail[c], sched[c])
     ELSE /\ Local(c, TRUE,
                   [appData[c] EXCEPT !.students =
                      [u \in DOMAIN @ \cup {id} |->
                         IF u = id THEN NewStudent(id) ELSE @[u]]],
                   paid[c], avail[c], sched[c])
          /\ NoAlert
  /\ UNCHANGED << store, nextReg, tz, probe >>

\* Remove, confirmed (src/App.tsx:978, 1099) with the /students onDelete
\* (628-636)
DeleteStudent(c, id) ==
  /\ StudentsMounted(c)
  /\ ~ isReadOnly(c)
  /\ id \in DOMAIN appData[c].students
  /\ Local(c, TRUE, RemoveStudent(appData[c], id), paid[c], avail[c], sched[c])
  /\ store' = StoreDeleteStudent(store, id)
  /\ NoAlert
  /\ UNCHANGED << nextReg, tz, probe >>

\* ------------------------------------------------------------------------
\* Cloud sync (src/App.tsx:91-166, 458-493)
\* ------------------------------------------------------------------------
\* the rows of a table as the array select('*') returns, here by reg_id
RECURSIVE RowsAsArray(_)
RowsAsArray(rows) ==
  IF rows = {} THEN << >>
  ELSE LET first == CHOOSE r \in rows : \A q \in rows : r.reg_id <= q.reg_id
       IN  << first >> \o RowsAsArray(rows \ {first})

\* SupabaseAPI.getData (src/App.tsx:92-125)
getData(st) ==
  [students |-> st.students,
   admins |-> IF DOMAIN st.admins # {} THEN st.admins ELSE INITIAL_ADMINS,
   tests |-> st.tests,
   registrations |-> RowsAsArray(st.registrations),
   results |-> RowsAsArray(st.results),
   isSystemLocked |-> st.lock]

\* upsert(rows, {onConflict: pk}) on a table keyed by the primary key
UpsertByKey(table, rows) ==
  [k \in DOMAIN table \cup DOMAIN rows |->
     IF k \in DOMAIN rows THEN rows[k] ELSE table[k]]

\* the store refused a row whose speaking (date, room, time) another
\* booking of the session holds
UpsertRegsUniqueSlot(table, rows) ==
  table \cup
    { n \in Range(rows) :
        \A r \in table :
           \/ r.reg_id = n.reg_id
           \/ r.test_id # n.test_id
           \/ << r.speaking_date, r.speaking_room, r.speaking_time >>
                # << n.speaking_date, n.speaking_room, n.speaking_time >> }

\* upsert(rows, {onConflict: 'reg_id'}) on a table held as a set of rows
UpsertRegs(table, rows) ==
  { r \in table : \A n \in Range(rows) : n.reg_id # r.reg_id } \cup Range(rows)

\* the store took a booking only while the session has a seat left
saveDataWithinCapacity(st, data) ==
  [students |-> IF DOMAIN data.students # {}
                THEN UpsertByKey(st.students, data.students) ELSE st.students,
   admins |-> IF DOMAIN data.admins # {}
              THEN UpsertByKey(st.admins, data.admins) ELSE st.admins,
   tests |-> IF DOMAIN data.tests # {}
             THEN UpsertByKey(st.tests, data.tests) ELSE st.tests,
   registrations |->
     st.registrations \cup
       { r \in Range(data.registrations) :
           Cardinality({ q \in st.registrations : q.test_id = r.test_id })
             < st.tests[r.test_id].max_capacity },
   results |-> IF data.results # << >>
               THEN UpsertRegs(st.results, data.results) ELSE st.results,
   lock |-> data.isSystemLocked]

\* SupabaseAPI.saveData (src/App.tsx:127-149): a table is written when the
\* client holds at least one row of it
saveData(st, data) ==
  [students |-> IF DOMAIN data.students # {}
                THEN UpsertByKey(st.students, data.students) ELSE st.students,
   admins |-> IF DOMAIN data.admins # {}
              THEN UpsertByKey(st.admins, data.admins) ELSE st.admins,
   tests |-> IF DOMAIN data.tests # {}
             THEN UpsertByKey(st.tests, data.tests) ELSE st.tests,
   registrations |-> IF data.registrations # << >>
                     THEN UpsertRegs(st.registrations, data.registrations)
                     ELSE st.registrations,
   results |-> IF data.results # << >>
               THEN UpsertRegs(st.results, data.results) ELSE st.results,
   lock |-> data.isSystemLocked]

\* initCloud completes (src/App.tsx:459-481): setAppData(cloudData)
LoadDone(c) ==
  /\ loading[c] > 0
  /\ Commit(c, TRUE, 1, getData(store), loggedID[c], userRole[c], route[c],
            paid[c], avail[c], sched[c])
  /\ Quiet

\* the sync timer fires (src/App.tsx:487-491)
SaveFire(c) ==
  /\ saveTimer[c]
  /\ store' = saveData(store, appData[c])
  /\ saveTimer' = [saveTimer EXCEPT ![c] = FALSE]
  /\ NoAlert
  /\ UNCHANGED << appData, loggedID, userRole, route, paid, avail, sched,
                  loading, nextReg, tz, probe >>

\* ------------------------------------------------------------------------
\* The speaking dates of a session, computed on their own
\* ------------------------------------------------------------------------
ProbeIdle == [test |-> None, dates |-> << >>, done |-> FALSE]

\* the useMemo of src/App.tsx:1192 / 1250 for the session probe.test
ComputeDates ==
  /\ probe.test # None
  /\ ~ probe.done
  /\ probe' = [probe EXCEPT !.dates = testSpeakingDates(tz["A"], probe.test),
                            !.done = TRUE]
  /\ UNCHANGED << appData, loggedID, userRole, route, paid, avail, sched,
                  alertMsg, store, loading, saveTimer, nextReg, tz >>

\* ------------------------------------------------------------------------
\* Specifications
\* ------------------------------------------------------------------------
InitStore ==
  [students |-> InitStudents, admins |-> INITIAL_ADMINS, tests |-> InitTests,
   registrations |-> {}, results |-> {}, lock |-> FALSE]

\* the page has just loaded in every browser: appData from localStorage,
\* nobody logged in, the mount effects have started initCloud and armed the
\* sync timer
InitApp ==
  /\ appData = [c \in Clients |-> InitAppData]
  /\ loggedID = [c \in Clients |-> NULL]
  /\ userRole = [c \in Clients |-> NULL]
  /\ route = [c \in Clients |-> "/"]
  /\ paid = [c \in Clients |-> PaidInit]
  /\ avail = [c \in Clients |-> AvailInit]
  /\ sched = [c \in Clients |-> SchedInit]
  /\ alertMsg = [c \in Clients |-> ""]
  /\ store = InitStore
  /\ loading = [c \in Clients |-> 1]
  /\ saveTimer = [c \in Clients |-> TRUE]
  /\ nextReg = 0

Init ==
  /\ InitApp
  /\ tz = [c \in Clients |-> Dhaka]
  /\ probe = ProbeIdle

\* What the users of one browser do.  Signing in with the credentials of
\* logins, signing out, and moving between pages:
SessionStep(c, logins) ==
  \/ \E cred \in logins : Login(c, cred[1], cred[2])
  \/ Logout(c)
  \/ \E r \in Routes : Navigate(c, r)

\* the Paid Test page
GuestStep(c) ==
  \/ \E x \in TestIds : PaidBookTest(c, x)
  \/ \E form \in GuestForms : PaidFill(c, form)
  \/ \E d \in Range(testSpeakingDates(tz[c], paid[c].selectedTest)) \cup { << >> } :
        PaidSelectDate(c, d)
  \/ \E t \in SlotTimes : PaidSelectTime(c, t)
  \/ PaidCancel(c)
  \/ \E now \in 1..MaxNow : PaidConfirm(c, now)
  \/ PaidCloseReceipt(c)

\* the Available Tests page
StudentStep(c) ==
  \/ \E x \in TestIds : AvailBook(c, x)
  \/ \E d \in Range(testSpeakingDates(tz[c], avail[c].confirmTest)) :
        AvailSelectDate(c, d)
  \/ \E t \in SlotTimes : AvailSelectTime(c, t)
  \/ \E pass \in PassInputs : AvailType(c, pass)
  \/ AvailCancel(c)
  \/ AvailConfirm(c)

\* the Schedules page
ScheduleStep(c) ==
  \/ \E x \in TestIds : SchedEdit(c, x)
  \/ \E form \in (IF sched[c].editingTest = None THEN {}
                   ELSE EditForms(sched[c].editingTest[1])) : SchedSubmit(c, form)
  \/ SchedCancel(c)
  \/ \E x \in TestIds : SchedDelete(c, x)

\* the Students page
ProfileStep(c) ==
  \/ \E id \in NewStudentIds : AddStudent(c, id)
  \/ \E id \in DOMAIN appData[c].students : DeleteStudent(c, id)

\* One browser, cut off from the store, that the administrator and the
\* student use in turn
NextLocal ==
  \/ SessionStep("A", LoginInputs)
  \/ GuestStep("A")
  \/ StudentStep("A")
  \/ ScheduleStep("A")
  \/ ProfileStep("A")

SpecLocal == Init /\ [][NextLocal]_vars

\* The browser "A" of the student, the browser "B" of the administrator
\* and the store they share.  Both users stay signed in and deal with the
\* session RacedTest, which has one seat.
RacedTest == "t1"

StudentAtA ==
  \/ \E cred \in StudentLogins : Login("A", cred[1], cred[2])
  \/ Navigate("A", "/tests")
  \/ AvailBook("A", RacedTest)
  \/ \E t \in SlotTimes : AvailSelectTime("A", t)
  \/ AvailType("A", "pw1")
  \/ AvailCancel("A")
  \/ AvailConfirm("A")

AdminAtB ==
  \/ \E cred \in AdminLogins : Login("B", cred[1], cred[2])
  \/ \E r \in {"/paid-test", "/schedules"} : Navigate("B", r)
  \/ PaidBookTest("B", RacedTest)
  \/ \E form \in GuestForms : PaidFill("B", form)
  \/ \E d \in Range(testSpeakingDates(tz["B"], paid["B"].selectedTest)) :
        PaidSelectDate("B", d)
  \/ \E t \in SlotTimes : PaidSelectTime("B", t)
  \/ PaidCancel("B")
  \/ \E now \in 1..MaxNow : PaidConfirm("B", now)
  \/ PaidCloseReceipt("B")
  \/ SchedEdit("B", RacedTest)
  \/ \E form \in (IF sched["B"].editingTest = None THEN {}
                   ELSE EditForms(sched["B"].editingTest[1])) : SchedSubmit("B", form)
  \/ SchedCancel("B")
  \/ SchedDelete("B", RacedTest)

Next ==
  \/ StudentAtA
  \/ AdminAtB
  \/ \E c \in Clients : LoadDone(c) \/ SaveFire(c)

Spec == Init /\ [][Next]_vars

\* the speaking dates of every session of ProbeTests in every zone of Zones
ProbeFirstDay == DaysFromCivil(2023, 12, 25)
ProbeLastDay == DaysFromCivil(2025, 1, 5)
ProbeTests ==
  { [InitTests["t1"] EXCEPT !.test_type = ty, !.test_date = CivilFromDays(n)] :
      ty \in {"Mock", "Speaking"}, n \in ProbeFirstDay..ProbeLastDay }

InitDates ==
  /\ InitApp
  /\ tz \in [Clients -> Zones]
  /\ tz["B"] = Dhaka
  /\ \E t \in ProbeTests : probe = [test |-> Some(t), dates |-> << >>, done |-> FALSE]

NextDates == ComputeDates

SpecDates == InitDates /\ [][NextDates]_vars

\* The same student signed in in two browsers (a phone and a laptop) that
\* share the store, and the two-seat session TwinTest
TwinTest == "t2"

StudentAtTab(c) ==
  \/ Login(c, "S1", "pw1")
  \/ Navigate(c, "/tests")
  \/ AvailBook(c, TwinTest)
  \/ \E d \in Range(testSpeakingDates(tz[c], avail[c].confirmTest)) :
        AvailSelectDate(c, d)
  \/ \E t \in SlotTimes : AvailSelectTime(c, t)
  \/ AvailType(c, "pw1")
  \/ AvailCancel(c)
  \/ AvailConfirm(c)

NextTwins ==
  \/ \E c \in Clients : StudentAtTab(c)
  \/ \E c \in Clients : LoadDone(c) \/ SaveFire(c)

SpecTwins == Init /\ [][NextTwins]_vars

\* One browser in which the sessions are partial tests without a speaking
\* part: t1 is a Listening session, t2 a Listening or a Reading session,
\* each with two seats; the student starts with one or two Listening
\* credits and no Reading credit
PartialTests(ty) ==
  [t \in TestIds |->
     [InitTests[t] EXCEPT !.test_type = IF t = "t1" THEN "Listening" ELSE ty,
                          !.max_capacity = 2]]

PartialStudents(n) ==
  [u \in DOMAIN InitStudents |->
     [InitStudents[u] EXCEPT !.remaining_tests.listening = n]]

InitPartial ==
  /\ \E ty \in {"Listening", "Reading"} : \E n \in 1..2 :
        /\ appData = [c \in Clients |->
                        [InitAppData EXCEPT !.tests = PartialTests(ty),
                                            !.students = PartialStudents(n)]]
        /\ store = [InitStore EXCEPT !.tests = PartialTests(ty),
                                     !.students = PartialStudents(n)]
  /\ loggedID = [c \in Clients |-> NULL]
  /\ userRole = [c \in Clients |-> NULL]
  /\ route = [c \in Clients |-> "/"]
  /\ paid = [c \in Clients |-> PaidInit]
  /\ avail = [c \in Clients |-> AvailInit]
  /\ sched = [c \in Clients |-> SchedInit]
  /\ alertMsg = [c \in Clients |-> ""]
  /\ loading = [c \in Clients |-> 1]
  /\ saveTimer = [c \in Clients |-> TRUE]
  /\ nextReg = 0
  /\ tz = [c \in Clients |-> Dhaka]
  /\ probe = ProbeIdle

NextPartial ==
  \/ SessionStep("A", LoginInputs)
  \/ \E x \in TestIds : PaidBookTest("A", x)
  \/ \E form \in GuestForms : PaidFill("A", form)
  \/ PaidCancel("A")
  \/ \E now \in 1..MaxNow : PaidConfirm("A", now)
  \/ PaidCloseReceipt("A")
  \/ \E x \in TestIds : AvailBook("A", x)
  \/ \E pass \in PassInputs : AvailType("A", pass)
  \/ AvailCancel("A")
  \/ AvailConfirm("A")

SpecPartial == InitPartial /\ [][NextPartial]_vars

\* One browser used in turn by the administrator, by a staff member with
\* the VIEWER role and by the student, who reach the pages through the
\* sidebar or by editing the hash of the address bar
StaffAccounts ==
  [a \in {"1", "2"} |->
     IF a = "1" THEN INITIAL_ADMINS["1"]
     ELSE [admin_id |-> "2", username |-> "viewer01", password |-> "vw1",
           role |-> "VIEWER"]]

RoleLogins ==
  { <<"HA.admin01", "HA@2007.app">>, <<"viewer01", "vw1">>, <<"S1", "pw1">> }

InitRoles ==
  /\ appData = [c \in Clients |-> [InitAppData EXCEPT !.admins = StaffAccounts]]
  /\ store = [InitStore EXCEPT !.admins = StaffAccounts]
  /\ loggedID = [c \in Clients |-> NULL]
  /\ userRole = [c \in Clients |-> NULL]
  /\ route = [c \in Clients |-> "/"]
  /\ paid = [c \in Clients |-> PaidInit]
  /\ avail = [c \in Clients |-> AvailInit]
  /\ sched = [c \in Clients |-> SchedInit]
  /\ alertMsg = [c \in Clients |-> ""]
  /\ loading = [c \in Clients |-> 1]
  /\ saveTimer = [c \in Clients |-> TRUE]
  /\ nextReg = 0
  /\ tz = [c \in Clients |-> Dhaka]
  /\ probe = ProbeIdle

NextRoles ==
  \/ SessionStep("A", RoleLogins)
  \/ \E r \in Routes : OpenHash("A", r)
  \/ ToggleLock("A")
  \/ PaidBookTest("A", RacedTest)
  \/ \E form \in GuestForms : PaidFill("A", form)
  \/ PaidCancel("A")
  \/ \E now \in 1..MaxNow : PaidConfirm("A", now)
  \/ PaidCloseReceipt("A")
  \/ ScheduleStep("A")
  \/ ProfileStep("A")

SpecRoles == InitRoles /\ [][NextRoles]_vars

\* The browser "A" of the student and the browser "B" of the administrator,
\* who switches the maintenance lock, with the store they share
NextLock ==
  \/ \E cred \in StudentLogins : Login("A", cred[1], cred[2])
  \/ Navigate("A", "/tests")
  \/ AvailBook("A", RacedTest)
  \/ \E t \in SlotTimes : AvailSelectTime("A", t)
  \/ AvailType("A", "pw1")
  \/ AvailCancel("A")
  \/ AvailConfirm("A")
  \/ \E cred \in AdminLogins : Login("B", cred[1], cred[2])
  \/ ToggleLock("B")
  \/ \E c \in Clients : LoadDone(c) \/ SaveFire(c)

SpecLock == Init /\ [][NextLock]_vars

\* ------------------------------------------------------------------------
\* Properties of the booking core
\* ------------------------------------------------------------------------
Bookings(c) == appData[c].registrations

Sessions(c) == appData[c].tests

Last(seq) == seq[Len(seq)]

\* the bookings that reference session x
BookingsOf(c, x) == { i \in DOMAIN Bookings(c) : Bookings(c)[i].test_id = x }

C2_CounterEqualsBookings ==
  \A x \in TestIds :
     Sessions("A")[x].current_registrations = Cardinality(BookingsOf("A", x))

\* a booking with a speaking date, room and time
HasSlot(r) ==
  TruthyDate(r.speaking_date) /\ Truthy(r.speaking_room) /\ Truthy(r.speaking_time)

\* C3: in the in-memory state of a browser, no two bookings of a session
\* that carry a speaking date, room and time share the same (date, room,
\* time), after any sequence of student and guest bookings, dialogs opened
\* and cancelled in between included.
C3_NoSlotBookedTwice ==
  \A i, j \in DOMAIN Bookings("A") :
     ( /\ i < j
       /\ Bookings("A")[i].test_id = Bookings("A")[j].test_id
       /\ HasSlot(Bookings("A")[i])
       /\ HasSlot(Bookings("A")[j]) )
     => << Bookings("A")[i].speaking_date, Bookings("A")[i].speaking_room,
           Bookings("A")[i].speaking_time >>
        # << Bookings("A")[j].speaking_date, Bookings("A")[j].speaking_room,
             Bookings("A")[j].speaking_time >>

\* what a booking may change: the bookings, the counters of the sessions
\* and the balances of the students
Counters(c) == [x \in TestIds |-> Sessions(c)[x].current_registrations]

Balances(c) ==
  [u \in DOMAIN appData[c].students |-> appData[c].students[u].remaining_tests]

\* the dialog of the student is open and one of the conditions of a booking
\* fails: wrong password, session full, or no speaking date and time
\* selected for a Speaking or Mock session
StudentAttemptFails(c) ==
  /\ avail[c].confirmTest # None
  /\ \/ avail[c].passInput # Student(c).password
     \/ avail[c].confirmTest[1].current_registrations
          >= avail[c].confirmTest[1].max_capacity
     \/ /\ avail[c].confirmTest[1].test_type \in {"Speaking", "Mock"}
        /\ (avail[c].speakingDate = << >> \/ avail[c].speakingTime = "")

\* the dialog of the guest is open and the name or the phone is missing
GuestAttemptFails(c) ==
  /\ paid[c].selectedTest # None
  /\ (paid[c].guestForm.name = "" \/ paid[c].guestForm.phone = "")

StudentBooks(c) ==
  /\ avail[c].confirmTest # None
  /\ alertMsg'[c] = "Test successfully booked!"

\* the step is a successful Confirm of the guest's dialog: the receipt of
\* the new booking is shown
GuestBooks(c) ==
  /\ paid[c].selectedTest # None
  /\ paid'[c].confirmedBooking # None

\* the balance of student u for module key drops by one, nothing else moves
OnlyBalanceDrops(c, u, key) ==
  /\ DOMAIN appData'[c].students = DOMAIN appData[c].students
  /\ \A v \in DOMAIN appData[c].students :
        \A k \in DOMAIN InitBalance :
           appData'[c].students[v].remaining_tests[k]
             = appData[c].students[v].remaining_tests[k]
               - (IF v = u /\ k = key THEN 1 ELSE 0)

\* C5: a successful booking by a registered student decreases that student's
\* balance for the session's module type by exactly 1 and leaves the
\* student's other four balances and every other student's balances
\* unchanged.
C5_BalanceDropsByOne ==
  [][ StudentBooks("A")
      => OnlyBalanceDrops("A", loggedID["A"],
           toLowerCase(Sessions("A")[avail["A"].confirmTest[1].test_id].test_type)) ]_vars

\* the student has just booked the Speaking session with a second profile
\* on file: one speaking credit of two is left
C5_StudentBooked ==
  /\ alertMsg["A"] = "Test successfully booked!"
  /\ DOMAIN appData["A"].students = {"S1", "GUEST-1"}
  /\ appData["A"].students["S1"].remaining_tests.speaking = 1
  /\ appData["A"].students["S1"].remaining_tests.mock = 1

\* the session the dialog of the step is open on
ChosenTest(c) ==
  IF avail[c].confirmTest # None THEN avail[c].confirmTest[1].test_id
  ELSE paid[c].selectedTest[1].test_id

\* C6: a successful allocation (student or guest) appends exactly one
\* booking with status Confirmed that references the chosen session and
\* copies its module type, and increments that session's
\* current_registrations by exactly 1 while leaving every other session
\* unchanged; every booking in the system has status Confirmed.
C6_OneConfirmedBooking ==
  [][ /\ (StudentBooks("A") \/ GuestBooks("A"))
         => /\ Len(Bookings("A")') = Len(Bookings("A")) + 1
            /\ SubSeq(Bookings("A")', 1, Len(Bookings("A"))) = Bookings("A")
            /\ Last(Bookings("A")').status = "Confirmed"
            /\ Last(Bookings("A")').test_id = ChosenTest("A")
            /\ Last(Bookings("A")').module_type
                 = Sessions("A")[ChosenTest("A")].test_type
            /\ \A x \in TestIds :
                  Sessions("A")'[x] =
                    IF x = ChosenTest("A")
                    THEN [Sessions("A")[x] EXCEPT !.current_registrations = @ + 1]
                    ELSE Sessions("A")[x]
      /\ \A i \in DOMAIN Bookings("A")' : Bookings("A")'[i].status = "Confirmed" ]_vars

\* the receipt of a guest booking of the Mock session is on the screen, the
\* Speaking session untouched
C6_GuestBooked ==
  /\ paid["A"].confirmedBooking # None
  /\ paid["A"].confirmedBooking[1].test_id = "t2"
  /\ Sessions("A")["t2"].current_registrations = 1
  /\ Sessions("A")["t1"].current_registrations = 0

\* C7: a guest booking of a session with available capacity succeeds,
\* changes no student record, and stores a subject reference that is
\* different from the id of every student.
C7_GuestIsNoStudent ==
  [][ GuestBooks("A")
      => /\ appData["A"]'.students = appData["A"].students
         /\ Last(Bookings("A")').user_id \notin DOMAIN appData["A"].students ]_vars

\* C8: every booking of a Speaking or Mock session, made by a student or by
\* a guest, carries a non-empty speaking date, time and room.
C8_SpeakingSlotPresent ==
  \A i \in DOMAIN Bookings("A") :
     Bookings("A")[i].module_type \in {"Speaking", "Mock"} => HasSlot(Bookings("A")[i])

\* the calendar day n days after date d
AddDays(d, n) == CivilFromDays(DaysFromCivil(d[1], d[2], d[3]) + n)

\* C9: the candidate speaking dates of a Mock session are exactly [session
\* date minus 1 day, session date plus 1 day] in that order, across month
\* and year boundaries too; those of a Speaking session are exactly
\* [session date].
C9_CandidateDates ==
  probe.done =>
    probe.dates =
      IF probe.test[1].test_type = "Mock"
      THEN << AddDays(probe.test[1].test_date, -1), AddDays(probe.test[1].test_date, 1) >>
      ELSE << probe.test[1].test_date >>

\* client c applies a booking of session x in this step
Applies(c, x) ==
  \/ StudentBooks(c) /\ avail[c].confirmTest[1].test_id = x
  \/ GuestBooks(c) /\ paid[c].selectedTest[1].test_id = x

\* C10: every successful allocation (student or guest) targets a session
\* that, at the moment the booking is applied to the client's state, is not
\* soft-deleted, is not manually closed and has current_registrations <
\* max_capacity.
C10_TargetIsBookable ==
  [][ \A c \in Clients : \A x \in TestIds :
        Applies(c, x)
        => /\ ~ Sessions(c)[x].is_deleted
           /\ ~ Sessions(c)[x].is_closed
           /\ Sessions(c)[x].current_registrations < Sessions(c)[x].max_capacity ]_vars

\* the bookings a student made for themself in a collection of bookings
OwnBookings(rows, u, x) ==
  { r \in rows : r.user_id = u /\ r.test_id = x /\ r.guest_name = "" }

\* C11: no registered student ever holds two bookings for the same session,
\* in the booking list of any browser and in the store: a student who
\* already has a booking for a session cannot start or complete another
\* booking of it.
C11_OneBookingPerSession ==
  \A x \in TestIds : \A u \in DOMAIN store.students :
     /\ Cardinality(OwnBookings(store.registrations, u, x)) <= 1
     /\ \A c \in Clients :
           Cardinality(OwnBookings(Range(Bookings(c)), u, x)) <= 1

\* the credits student u of browser c has left for the module type of
\* session x
Credits(c, u, x) ==
  appData[c].students[u].remaining_tests[toLowerCase(Sessions(c)[x].test_type)]

DeletedHere(c, x) ==
  /\ ~ Sessions(c)[x].is_deleted
  /\ Sessions(c)'[x].is_deleted
  /\ loading'[c] = loading[c]

OnlyAt(c, d, x) ==
  { r \in Range(Bookings(c)) : r.test_id = x /\ r \notin Range(Bookings(d)) }

\* the last change of every browser has been saved
AllSaved == \A c \in Clients : ~ saveTimer[c]

Slot(r) == << r.speaking_date, r.speaking_room, r.speaking_time >>

Saves(c) == saveTimer[c] /\ ~ saveTimer'[c]

\* the bookings of browser c that the store does not hold yet
Unsaved(c) == { r \in Range(Bookings(c)) : r \notin store.registrations }

\* the store after the three record changes of booking r of browser c: the
\* booking row, the counter of its session and, if its subject is a
\* student, the balance of that student
ThreeChanges(c, r) ==
  [store EXCEPT
     !.registrations = @ \cup {r},
     !.tests = [x \in DOMAIN @ |->
                  IF x = r.test_id
                  THEN [@[x] EXCEPT !.current_registrations =
                                       Sessions(c)[x].current_registrations]
                  ELSE @[x]],
     !.students = [u \in DOMAIN @ |->
                     IF u = r.user_id /\ u \in DOMAIN appData[c].students
                     THEN [@[u] EXCEPT !.remaining_tests =
                                          appData[c].students[u].remaining_tests]
                     ELSE @[u]]]

\* C16: the save that follows a successful allocation changes exactly three
\* records of the store, the one new booking, the counter of the booked
\* session and (for a student) the balance of that student, and writes or
\* overwrites no other stored record.
C16_SaveWritesThreeRecords ==
  [][ \A c \in Clients : \A r \in Unsaved(c) :
        (Saves(c) /\ Unsaved(c) = {r}) => store' = ThreeChanges(c, r) ]_vars

\* C17: every booking record's user_id is the user_id of an existing student
\* record (the foreign key registrations.user_id of the documented schema),
\* after any sequence of student bookings, guest bookings and student
\* deletions.
C17_SubjectIsStudent ==
  \A i \in DOMAIN Bookings("A") :
     Bookings("A")[i].user_id \in DOMAIN appData["A"].students

\* the rooms that bookings of session x in browser c hold on date d at
\* time t
RoomsTaken(c, x, d, t) ==
  { Bookings(c)[i].speaking_room :
      i \in { j \in BookingsOf(c, x) :
                /\ Bookings(c)[j].speaking_date = d
                /\ Bookings(c)[j].speaking_time = t } }

\* the first of Room No: 01, 02, 03 that no booking of session x holds on
\* date d at time t
FirstFreeRoom(c, x, d, t) ==
  IF SPEAKING_ROOMS[1] \notin RoomsTaken(c, x, d, t) THEN SPEAKING_ROOMS[1]
  ELSE IF SPEAKING_ROOMS[2] \notin RoomsTaken(c, x, d, t) THEN SPEAKING_ROOMS[2]
  ELSE IF SPEAKING_ROOMS[3] \notin RoomsTaken(c, x, d, t) THEN SPEAKING_ROOMS[3]
  ELSE ""

\* C18: the room recorded in a Speaking or Mock booking that carries a
\* speaking date and time is the first room, in the order Room No: 01, 02,
\* 03, for which no existing booking of that session has the same (date,
\* room, time), evaluated against the bookings that exist when the booking
\* is confirmed; with no earlier booking of the session it is Room No: 01.
C18_FirstFreeRoomRecorded ==
  [][ ( /\ (StudentBooks("A") \/ GuestBooks("A"))
        /\ Last(Bookings("A")').module_type \in {"Speaking", "Mock"}
        /\ TruthyDate(Last(Bookings("A")').speaking_date)
        /\ Truthy(Last(Bookings("A")').speaking_time) )
      => Last(Bookings("A")').speaking_room
           = FirstFreeRoom("A", Last(Bookings("A")').test_id,
                           Last(Bookings("A")').speaking_date,
                           Last(Bookings("A")').speaking_time) ]_vars

\* C19: a booking of a Listening, Reading or Writing session carries no
\* speaking date, no speaking time and no speaking room, whether it is made
\* by a student or by a guest.
C19_NoSlotOnPartialTest ==
  \A i \in DOMAIN Bookings("A") :
     Bookings("A")[i].module_type \in {"Listening", "Reading", "Writing"}
     => /\ Bookings("A")[i].speaking_date = << >>
        /\ Bookings("A")[i].speaking_time = ""
        /\ Bookings("A")[i].speaking_room = ""

\* the bookings of the list rows whose subject is not in the set gone, in
\* the order of the list
RECURSIVE Without(_, _)
Without(rows, gone) ==
  IF rows = << >> THEN << >>
  ELSE IF rows[1].user_id \in gone THEN Without(Tail(rows), gone)
       ELSE << rows[1] >> \o Without(Tail(rows), gone)

\* the students whose profile this step removes from browser c
Removed(c) == DOMAIN appData[c].students \ DOMAIN appData'[c].students

StudentCause(c) ==
  IF avail[c].passInput # Student(c).password THEN "Incorrect."
  ELSE IF avail[c].confirmTest[1].current_registrations
            >= avail[c].confirmTest[1].max_capacity THEN "Full."
  ELSE IF /\ avail[c].confirmTest[1].test_type \in {"Speaking", "Mock"}
          /\ (avail[c].speakingDate = << >> \/ avail[c].speakingTime = "")
       THEN "Select speaking."
  ELSE ""

\* the dialog of the student stays open and shows another message than
\* before: Confirm has refused the attempt
StudentRefused(c) ==
  /\ avail[c].confirmTest # None
  /\ avail'[c].confirmTest # None
  /\ avail'[c].error # avail[c].error

\* C21: every allocation attempt that does not produce a booking sets a
\* user-visible message that identifies which precondition failed (wrong
\* password, session full, speaking slot not selected, guest name or phone
\* missing), and different failed preconditions give different messages:
\* whenever the conditions of the open dialog fail, Confirm answers with a
\* message, and the message a refusal shows is the one of the condition
\* that fails.
C21_RefusalNamesTheCause ==
  [][ /\ StudentAttemptFails("A")
         => AvailConfirmError(avail["A"], Student("A")) = StudentCause("A")
      /\ StudentRefused("A")
         => StudentAttemptFails("A") /\ avail'["A"].error = StudentCause("A")
      /\ GuestAttemptFails("A") => ~ PaidConfirmPasses(paid["A"])
      /\ alertMsg'["A"] = "Fill all fields."
         => GuestAttemptFails("A") /\ Bookings("A")' = Bookings("A") ]_vars

\* the student typed the right password without picking a time and was
\* told to select the speaking slot
C21_ToldToSelectSlot ==
  /\ avail["A"].confirmTest # None
  /\ avail["A"].passInput = Student("A").password
  /\ avail["A"].error = "Select speaking."
  /\ avail["A"].speakingTime = ""

\* C22: cancelling or completing a booking dialog clears the pending
\* speaking date, time and room: while no dialog is open, none of the
\* three is held, so a booking can only submit a (date, time, room) that
\* was selected in the dialog of its own session.
C22_NoSlotWithoutDialog ==
  /\ paid["A"].selectedTest = None
     => /\ paid["A"].speakingDate = << >>
        /\ paid["A"].speakingTime = ""
        /\ paid["A"].assignedRoom = ""
  /\ avail["A"].confirmTest = None
     => /\ avail["A"].speakingDate = << >>
        /\ avail["A"].speakingTime = ""
        /\ avail["A"].assignedRoom = ""

\* C23: across all sessions, no two bookings share the same speaking (date,
\* room, time), also when the two bookings belong to different sessions.
C23_RoomNeverSharedAcrossSessions ==
  \A i, j \in DOMAIN Bookings("A") :
     (i < j /\ HasSlot(Bookings("A")[i]) /\ HasSlot(Bookings("A")[j]))
     => Slot(Bookings("A")[i]) # Slot(Bookings("A")[j])

\* the bookings of student u for module key k in a collection of bookings
BookingsOfModule(rows, u, k) ==
  { r \in rows : r.user_id = u /\ toLowerCase(r.module_type) = k }

\* C24: for every student and module type, no administrator editing the
\* balance, the current balance plus the number of that student's bookings
\* of that module type equals the initial balance, in the state of each
\* browser and in the store, also when the same student books from two
\* browsers that loaded the same snapshot.
C24_BalancePlusBookings ==
  \A k \in DOMAIN InitBalance :
     /\ \A u \in DOMAIN store.students :
           store.students[u].remaining_tests[k]
             + Cardinality(BookingsOfModule(store.registrations, u, k))
           = InitBalance[k]
     /\ \A c \in Clients : \A u \in DOMAIN appData[c].students :
           appData[c].students[u].remaining_tests[k]
             + Cardinality(BookingsOfModule(Range(Bookings(c)), u, k))
           = InitBalance[k]

\* C25: once a booking has been applied and reported as successful, it
\* stays in the booking list of that browser in every later state, unless
\* its student is deleted, also when the cloud load started at mount or at
\* login completes after the booking.
C25_BookingStaysInList ==
  [][ \A c \in Clients : \A r \in Range(Bookings(c)) :
        r.user_id \notin Removed(c) => r \in Range(Bookings(c)') ]_vars

\* C26: once the soft-deleted flag of a session has been set it is never
\* cleared again, neither in the state of the browser that deleted it nor
\* in the store, also when another browser that loaded the session before
\* the deletion later saves its own state.
C26_DeletedStaysDeleted ==
  [][ \A x \in TestIds :
        /\ store.tests[x].is_deleted => store'.tests[x].is_deleted
        /\ Sessions("B")[x].is_deleted => Sessions("B")'[x].is_deleted ]_vars

\* C27: the stored current_registrations of a session never decreases, also
\* when several browsers that loaded different snapshots save their state
\* in any order.
C27_StoredCounterNeverDrops ==
  [][ \A x \in TestIds :
        store'.tests[x].current_registrations
          >= store.tests[x].current_registrations ]_vars

\* C28: a user logged in with the VIEWER role cannot change anything: no
\* operation enabled for that role adds, edits or removes a student,
\* session, booking, result or staff account, or toggles the maintenance
\* lock.
C28_ViewerChangesNothing ==
  [][ (userRole["A"] = "VIEWER" /\ userRole'["A"] = "VIEWER")
      => appData'["A"] = appData["A"] ]_vars

\* C29: while a STUDENT is logged in, whatever route the student navigates
\* to, no staff operation takes effect: no student is added or deleted, no
\* session is edited or deleted, no guest is booked and the lock is not
\* toggled.
C29_StudentRunsNoStaffOperation ==
  [][ (userRole["A"] = "STUDENT" /\ userRole'["A"] = "STUDENT")
      => /\ DOMAIN appData'["A"].students = DOMAIN appData["A"].students
         /\ \A x \in TestIds :
               [Sessions("A")'[x] EXCEPT !.current_registrations = 0]
                 = [Sessions("A")[x] EXCEPT !.current_registrations = 0]
         /\ \A r \in Range(Bookings("A")') :
               r \in Range(Bookings("A")) \/ r.user_id = loggedID["A"]
         /\ \A r \in Range(Bookings("A")) : r \in Range(Bookings("A")')
         /\ appData'["A"].admins = appData["A"].admins
         /\ appData'["A"].isSystemLocked = appData["A"].isSystemLocked ]_vars

\* C30: the stored maintenance-lock flag changes only when a staff user
\* toggles it: it changes only with a save of a browser in which a staff
\* user is signed in, never with the save of a browser of a student or of
\* a browser in which nobody is signed in.
C30_LockChangesOnlyByStaff ==
  [][ store'.lock # store.lock
      => \E c \in Clients :
            Saves(c) /\ userRole[c] \notin {NULL, "STUDENT"} ]_vars

====
